---- MODULE Spec2Model ----
(***************************************************************************)
(* A model of the listic-lite recipe agent: the tools of ai_agent/tools.py, *)
(* the page fetch of ai_agent/tasks.py and run_agent of ai_agent/agent.py.  *)
(*                                                                         *)
(* Strings are sequences of tokens (a token is a TLA+ string), so that      *)
(* "begins with", formatting and parsing are computed, not assumed.         *)
(* The hosted model, the browser and the agent's choices are the            *)
(* environment: each of their answers is drawn from a small set.            *)
(* A call's outcome is a record [kind, val]: kind is "none" while the call  *)
(* runs, "ret" when it returned val, "raise" when it raised val.            *)
(***************************************************************************)
EXTENDS Integers, Sequences, FiniteSets, TLC

VARIABLES
    tool,          \* the function under execution (one specification each)
    urls,          \* fetch_recipes_from_urls: its argument
    f_pc,          \* fetch_recipe_from_url: position of the i-th coroutine
    page_content,  \* fetch_recipe_from_url: its local page_content
    f_ret,         \* fetch_recipe_from_url: outcome of the i-th coroutine
    goto_calls,    \* number of page.goto calls made for the i-th URL
    f_fault,       \* history: how the fetch of the i-th URL failed, or "none"
    f_order,       \* history: the coroutines in the order they completed
    fetch_out,     \* fetch_recipes_from_urls: outcome of the tool
    recipe_texts,  \* extract_ingredients: its argument
    e_pc,          \* extract_ingredients: position of the i-th chain.ainvoke
    e_ret,         \* extract_ingredients: outcome of the i-th chain.ainvoke
    e_requests,    \* number of model requests sent for the i-th recipe text
    e_order,       \* history: the chain.ainvoke calls in the order they completed
    extract_out,   \* extract_ingredients: outcome of the tool
    ingredients,   \* consolidate_units: its argument
    c_pc,          \* consolidate_units: position
    c_requests,    \* consolidate_units: number of model requests sent
    c_answer,      \* consolidate_units: what chain.ainvoke came back with
    c_printed,     \* consolidate_units: the lines printed
    consolidate_out, \* consolidate_units: outcome of the tool
    ingredient_list, \* unify_ingredient_names: its argument, changed in place
    u_input,       \* history: unify_ingredient_names' argument as it was passed
    u_pc,          \* unify_ingredient_names: position
    u_requests,    \* unify_ingredient_names: number of model requests sent
    u_answer,      \* unify_ingredient_names: what chain.ainvoke came back with
    unify_out,     \* unify_ingredient_names: outcome of the tool
    ingredients_list, \* group_by_ingredient_name: its argument
    g_pc,          \* group_by_ingredient_name: position
    group_out,     \* group_by_ingredient_name: outcome of the tool
    ingredient1,   \* sum_quantities: its first argument
    ingredient2,   \* sum_quantities: its second argument
    s_pc,          \* sum_quantities: position
    sum_out,       \* sum_quantities: outcome of the tool
    h_args,        \* handle_unknown_units: its three arguments
    h_pc,          \* handle_unknown_units: position
    h_requests,    \* handle_unknown_units: number of model requests sent
    h_answer,      \* handle_unknown_units: what chain.ainvoke came back with
    h_printed,     \* handle_unknown_units: the lines printed
    convert_out,   \* handle_unknown_units: outcome of the tool
    user_inputs,   \* run_agent: its argument
    a_pc,          \* run_agent: position, inside the executor's loop too
    iterations,    \* the executor's count of steps taken
    requested,     \* the tool name of the model's last tool call
    a_exception,   \* the exception that left the executor, if one did
    a_printed,     \* run_agent: the lines printed
    run_out        \* run_agent: its outcome

fetchVars ==
    <<urls, f_pc, page_content, f_ret, goto_calls, f_fault, f_order, fetch_out>>

extractVars == <<recipe_texts, e_pc, e_ret, e_requests, e_order, extract_out>>

consolidateVars ==
    <<ingredients, c_pc, c_requests, c_answer, c_printed, consolidate_out>>

unifyVars == <<ingredient_list, u_input, u_pc, u_requests, u_answer, unify_out>>

groupVars == <<ingredients_list, g_pc, group_out>>

sumVars == <<ingredient1, ingredient2, s_pc, sum_out>>

convertVars == <<h_args, h_pc, h_requests, h_answer, h_printed, convert_out>>

agentVars ==
    <<user_inputs, a_pc, iterations, requested, a_exception, a_printed, run_out>>

vars ==
    <<tool, fetchVars, extractVars, consolidateVars, unifyVars, groupVars, sumVars,
      convertVars, agentVars>>

notFetch ==
    <<tool, extractVars, consolidateVars, unifyVars, groupVars,
      sumVars, convertVars, agentVars>>

notExtract ==
    <<tool, fetchVars, consolidateVars, unifyVars, groupVars,
      sumVars, convertVars, agentVars>>

notConsolidate ==
    <<tool, fetchVars, extractVars, unifyVars, groupVars,
      sumVars, convertVars, agentVars>>

notUnify ==
    <<tool, fetchVars, extractVars, consolidateVars, groupVars,
      sumVars, convertVars, agentVars>>

notGroup ==
    <<tool, fetchVars, extractVars, consolidateVars, unifyVars,
      sumVars, convertVars, agentVars>>

notSum ==
    <<tool, fetchVars, extractVars, consolidateVars, unifyVars,
      groupVars, convertVars, agentVars>>

notConvert ==
    <<tool, fetchVars, extractVars, consolidateVars, unifyVars,
      groupVars, sumVars, agentVars>>

notAgent ==
    <<tool, fetchVars, extractVars, consolidateVars, unifyVars,
      groupVars, sumVars, convertVars>>

-----------------------------------------------------------------------------
(* Bounds *)

MaxUrls == 2

MaxTexts == 2

MaxIngredients == 2

MaxQtyLen == 3

MaxListed == 2

ArgQtyLen == 1

MaxInputs == 2

-----------------------------------------------------------------------------
(* Outcomes and sequences *)

None == [kind |-> "none", val |-> <<>>]

Ret(v) == [kind |-> "ret", val |-> v]

Raise(e) == [kind |-> "raise", val |-> e]

SeqsUpTo(S, n) == UNION {[1..k -> S] : k \in 0..n}

StartsWith(s, tok) == Len(s) > 0 /\ s[1] = tok

-----------------------------------------------------------------------------
(* ai_agent/tasks.py: fetch_recipe_from_url *)

Urls == {"u1", "u2"}

NoTag == <<"<none>">>

\* A rendered page as BeautifulSoup sees it: the text of the first element
\* whose class contains "recipe", of the first whose id does, of the first
\* <article>, of <body>, and of the whole document; NoTag where there is none.
Page(c, i, a, b, t) == [cls |-> c, id |-> i, article |-> a, body |-> b, all |-> t]

EmptyContent == Page(NoTag, NoTag, NoTag, NoTag, <<>>)

Pages ==
    { EmptyContent,
      Page(<<"flour">>, NoTag, <<"blog">>, <<"menu", "flour">>, <<"menu", "flour">>),
      Page(NoTag, NoTag, NoTag, <<"Error:", "404">>, <<"Error:", "404">>),
      Page(NoTag, NoTag, NoTag, NoTag, <<"plain">>) }

ErrorPageLoad(url) ==
    <<"Error:", "Could not fetch content from", url,
      ". Reason: Page load failed or timed out.">>

ErrorReason(url, e) ==
    <<"Error:", "Could not fetch content from", url, ". Reason:", e>>

ErrorNoContent(url) == <<"Error:", "No content fetched from", url>>

\* lines 31-42: the first container found, or the whole text when none is
recipe_text(content) ==
    IF content.cls # NoTag THEN content.cls
    ELSE IF content.id # NoTag THEN content.id
    ELSE IF content.article # NoTag THEN content.article
    ELSE IF content.body # NoTag THEN content.body
    ELSE content.all

\* lines 16-19: page.goto raised and the browser was closed
OnGotoFailed(url) == Ret(ErrorPageLoad(url))

OnPlaywrightException_Reraise(url, e) == Raise(e)

\* lines 24-26: the outer handler, for any exception of the Playwright block
OnPlaywrightException(url, e) == Ret(ErrorReason(url, e))

\* lines 28-42: after the Playwright block has ended without an exception
AfterPlaywright(url, content) ==
    IF content = EmptyContent THEN Ret(ErrorNoContent(url))
    ELSE Ret(recipe_text(content))

Tasks == 1..Len(urls)

FetchIdle ==
    /\ urls = <<>>
    /\ f_pc = <<>>
    /\ page_content = <<>>
    /\ f_ret = <<>>
    /\ goto_calls = <<>>
    /\ f_fault = <<>>
    /\ f_order = <<>>
    /\ fetch_out = None

FetchStart ==
    /\ urls \in SeqsUpTo(Urls, MaxUrls)
    /\ f_pc = [i \in 1..Len(urls) |-> "launch"]
    /\ page_content = [i \in 1..Len(urls) |-> EmptyContent]
    /\ f_ret = [i \in 1..Len(urls) |-> None]
    /\ goto_calls = [i \in 1..Len(urls) |-> 0]
    /\ f_fault = [i \in 1..Len(urls) |-> "none"]
    /\ f_order = <<>>
    /\ fetch_out = None

FetchEnd(i, outcome, fault) ==
    /\ f_ret' = [f_ret EXCEPT ![i] = outcome]
    /\ f_fault' = [f_fault EXCEPT ![i] = fault]
    /\ f_order' = Append(f_order, i)
    /\ f_pc' = [f_pc EXCEPT ![i] = "done"]

\* lines 11-13: async_playwright(), chromium.launch(), new_page()
Launch(i) ==
    /\ tool = "fetch_recipes_from_urls"
    /\ f_pc[i] = "launch"
    /\ \/ /\ f_pc' = [f_pc EXCEPT ![i] = "goto"]
          /\ UNCHANGED <<f_ret, f_fault, f_order>>
       \/ FetchEnd(i, OnPlaywrightException(urls[i], "launch failed"), "playwright")
    /\ UNCHANGED notFetch /\ UNCHANGED <<urls, page_content, goto_calls, fetch_out>>

Goto_Retry(i) ==
    /\ tool = "fetch_recipes_from_urls"
    /\ f_pc[i] = "goto"
    /\ goto_calls' = [goto_calls EXCEPT ![i] = @ + 1]
    /\ \E ok \in BOOLEAN :
          f_pc' = [f_pc EXCEPT ![i] = IF ok THEN "content" ELSE "goto"]
    /\ UNCHANGED notFetch /\ UNCHANGED <<urls, page_content, f_ret, f_fault, f_order, fetch_out>>

\* lines 14-17: page.goto
Goto(i) ==
    /\ tool = "fetch_recipes_from_urls"
    /\ f_pc[i] = "goto"
    /\ goto_calls' = [goto_calls EXCEPT ![i] = @ + 1]
    /\ \E ok \in BOOLEAN :
          f_pc' = [f_pc EXCEPT ![i] = IF ok THEN "content" ELSE "goto_failed"]
    /\ UNCHANGED notFetch /\ UNCHANGED <<urls, page_content, f_ret, f_fault, f_order, fetch_out>>

\* lines 18-19: browser.close() in the handler of page.goto, then the return
GotoFailedClose(i) ==
    /\ tool = "fetch_recipes_from_urls"
    /\ f_pc[i] = "goto_failed"
    /\ \/ FetchEnd(i, OnGotoFailed(urls[i]), "goto")
       \/ FetchEnd(i, OnPlaywrightException(urls[i], "close failed"), "playwright")
    /\ UNCHANGED notFetch /\ UNCHANGED <<urls, page_content, goto_calls, fetch_out>>

\* lines 21-22: sleep, page.content()
Content(i) ==
    /\ tool = "fetch_recipes_from_urls"
    /\ f_pc[i] = "content"
    /\ \/ /\ \E c \in Pages : page_content' = [page_content EXCEPT ![i] = c]
          /\ f_pc' = [f_pc EXCEPT ![i] = "close"]
          /\ UNCHANGED <<f_ret, f_fault, f_order>>
       \/ /\ FetchEnd(i, OnPlaywrightException(urls[i], "content failed"), "playwright")
          /\ UNCHANGED page_content
    /\ UNCHANGED notFetch /\ UNCHANGED <<urls, goto_calls, fetch_out>>

\* lines 23-42: browser.close(), the end of the Playwright block, the parse
Close(i) ==
    /\ tool = "fetch_recipes_from_urls"
    /\ f_pc[i] = "close"
    /\ \/ FetchEnd(i, AfterPlaywright(urls[i], page_content[i]),
                   IF page_content[i] = EmptyContent THEN "empty" ELSE "none")
       \/ FetchEnd(i, OnPlaywrightException(urls[i], "close failed"), "playwright")
    /\ UNCHANGED notFetch /\ UNCHANGED <<urls, page_content, goto_calls, fetch_out>>

GatherOutcome_AsCompleted(rets) ==
    LET order == IF tool = "fetch_recipes_from_urls" THEN f_order ELSE e_order
    IN  IF \E i \in DOMAIN rets : rets[i].kind = "raise"
        THEN {Raise(rets[i].val) : i \in {j \in DOMAIN rets : rets[j].kind = "raise"}}
        ELSE IF \A i \in DOMAIN rets : rets[i].kind = "ret"
        THEN {Ret([k \in DOMAIN rets |-> rets[order[k]].val])}
        ELSE {}

\* asyncio.gather without return_exceptions: the results in argument order
\* once every awaitable has returned, the first exception as soon as one is
\* raised
GatherOutcome(rets) ==
    IF \E i \in DOMAIN rets : rets[i].kind = "raise"
    THEN {Raise(rets[i].val) : i \in {j \in DOMAIN rets : rets[j].kind = "raise"}}
    ELSE IF \A i \in DOMAIN rets : rets[i].kind = "ret"
    THEN {Ret([i \in DOMAIN rets |-> rets[i].val])}
    ELSE {}

\* tools.py line 128
FetchGather ==
    /\ tool = "fetch_recipes_from_urls"
    /\ fetch_out = None
    /\ \E o \in GatherOutcome(f_ret) : fetch_out' = o
    /\ UNCHANGED notFetch /\ UNCHANGED <<urls, f_pc, page_content, f_ret, goto_calls, f_fault, f_order>>

-----------------------------------------------------------------------------
(* JSON values as the output parser hands them over, and data_models.py *)

JStr(s) == [t |-> "str", v |-> s]

JNum(literal) == [t |-> "num", v |-> literal]

JBool(literal) == [t |-> "bool", v |-> literal]

JList(items) == [t |-> "list", v |-> items]

JObj(fields) == [t |-> "obj", v |-> fields]

Has(j, key) == j.t = "obj" /\ key \in DOMAIN j.v

JIngredient(n, q, u) ==
    JObj([name |-> JStr(n), quantity |-> JStr(q), unit |-> JStr(u)])

\* data_models.py, Ingredient: three string fields, all required
ValidIngredient(j) ==
    /\ j.t = "obj"
    /\ \A key \in {"name", "quantity", "unit"} : Has(j, key) /\ j.v[key].t = "str"

Ingredient(j) ==
    [name |-> j.v["name"].v, quantity |-> j.v["quantity"].v, unit |-> j.v["unit"].v]

\* data_models.py, IngredientsOutput: a required list of Ingredient
ValidIngredientsOutput(j) ==
    /\ Has(j, "ingredients")
    /\ j.v["ingredients"].t = "list"
    /\ \A k \in DOMAIN j.v["ingredients"].v : ValidIngredient(j.v["ingredients"].v[k])

\* IngredientsOutput(**result): the object, or the exception of the call
IngredientsOutput(j) ==
    IF j.t # "obj" THEN Raise("TypeError")
    ELSE IF ~ValidIngredientsOutput(j) THEN Raise("ValidationError")
    ELSE Ret([ingredients |->
                [k \in DOMAIN j.v["ingredients"].v |->
                    Ingredient(j.v["ingredients"].v[k])]])

-----------------------------------------------------------------------------
(* Python's float(str) on the characters of QtyChars: surrounding blanks are *)
(* stripped, one sign is allowed, then digits with at most one point and at  *)
(* least one digit. A value is an integer count of 10^-Scale units.          *)

Digits == {"0", "1", "2", "3", "4", "5", "6", "7", "8", "9"}

DigitVal(c) ==
    CASE c = "0" -> 0 [] c = "1" -> 1 [] c = "2" -> 2 [] c = "3" -> 3 [] c = "4" -> 4
      [] c = "5" -> 5 [] c = "6" -> 6 [] c = "7" -> 7 [] c = "8" -> 8 [] c = "9" -> 9

RECURSIVE LStrip(_)
LStrip(s) == IF Len(s) > 0 /\ s[1] = " " THEN LStrip(Tail(s)) ELSE s

RECURSIVE RStrip(_)
RStrip(s) ==
    IF Len(s) > 0 /\ s[Len(s)] = " " THEN RStrip(SubSeq(s, 1, Len(s) - 1)) ELSE s

Strip(s) == RStrip(LStrip(s))

Unsigned(s) == IF Len(s) > 0 /\ s[1] \in {"+", "-"} THEN Tail(s) ELSE s

IsDecimal(s) ==
    /\ \A k \in DOMAIN s : s[k] \in Digits \cup {"."}
    /\ Cardinality({k \in DOMAIN s : s[k] = "."}) <= 1
    /\ \E k \in DOMAIN s : s[k] \in Digits

ParsesAsFloat(s) == IsDecimal(Unsigned(Strip(s)))

RECURSIVE Pow10(_)
Pow10(n) == IF n = 0 THEN 1 ELSE 10 * Pow10(n - 1)

RECURSIVE DigitsValue(_)
DigitsValue(s) ==
    IF Len(s) = 0 THEN 0
    ELSE 10 * DigitsValue(SubSeq(s, 1, Len(s) - 1)) + DigitVal(s[Len(s)])

Scale == MaxQtyLen

FloatValue(s) ==
    LET t == Strip(s)
        u == Unsigned(t)
        dot == IF \E k \in DOMAIN u : u[k] = "."
               THEN CHOOSE k \in DOMAIN u : u[k] = "." ELSE Len(u) + 1
        whole == SubSeq(u, 1, dot - 1)
        frac == SubSeq(u, dot + 1, Len(u))
        mag == DigitsValue(whole \o frac) * Pow10(Scale - Len(frac))
    IN  IF Len(t) > 0 /\ t[1] = "-" THEN 0 - mag ELSE mag

\* float(s): the value, or ValueError
float(s) == IF ParsesAsFloat(s) THEN Ret(FloatValue(s)) ELSE Raise("ValueError")

-----------------------------------------------------------------------------
(* ai_agent/tools.py: extract_ingredients *)

Texts == {"t1", "t2"}

\* What prompt | llm | parser can come back with for one recipe text: the
\* model call raises, the parser raises, or the parser returns a JSON value
\* (which need not fit the schema it was only told about).
ExtractAnswers ==
    << Raise("APIError"),
       Raise("OutputParserException"),
       Ret(JObj([ingredients |-> JList(<<JIngredient(<<"a">>, <<"1">>, <<"g">>)>>)])),
       Ret(JObj([ingredients |->
                   JList(<<JIngredient(<<"A">>, <<"1", "/", "2">>, <<"szt.">>),
                           JIngredient(<<"b">>, <<"1">>, <<"g">>)>>)])),
       Ret(JObj([items |-> JList(<<>>)])),
       Ret(JObj([ingredients |->
                   JList(<<JObj([name |-> JStr(<<"a">>), quantity |-> JNum(<<"1">>),
                                 unit |-> JStr(<<"g">>)])>>)])),
       Ret(JList(<<>>)) >>

Chains == 1..Len(recipe_texts)

ExtractIdle ==
    /\ recipe_texts = <<>>
    /\ e_pc = <<>>
    /\ e_ret = <<>>
    /\ e_requests = <<>>
    /\ e_order = <<>>
    /\ extract_out = None

ExtractStart ==
    /\ recipe_texts \in SeqsUpTo(Texts, MaxTexts)
    /\ e_pc = [i \in 1..Len(recipe_texts) |-> "invoke"]
    /\ e_ret = [i \in 1..Len(recipe_texts) |-> None]
    /\ e_requests = [i \in 1..Len(recipe_texts) |-> 0]
    /\ e_order = <<>>
    /\ extract_out = None

\* line 153: chain.ainvoke sends the request for the i-th recipe text
ExtractRequest(i) ==
    /\ tool = "extract_ingredients"
    /\ e_pc[i] = "invoke"
    /\ e_pc' = [e_pc EXCEPT ![i] = "waiting"]
    /\ e_requests' = [e_requests EXCEPT ![i] = @ + 1]
    /\ UNCHANGED notExtract /\ UNCHANGED <<recipe_texts, e_ret, e_order, extract_out>>

\* line 153: the i-th chain.ainvoke ends
ExtractAnswer(i) ==
    /\ tool = "extract_ingredients"
    /\ e_pc[i] = "waiting"
    /\ \E a \in DOMAIN ExtractAnswers : e_ret' = [e_ret EXCEPT ![i] = ExtractAnswers[a]]
    /\ e_pc' = [e_pc EXCEPT ![i] = "done"]
    /\ e_order' = Append(e_order, i)
    /\ UNCHANGED notExtract /\ UNCHANGED <<recipe_texts, e_requests, extract_out>>

ExtractResults_Partial(results) ==
    LET ok == {k \in DOMAIN results : IngredientsOutput(results[k]).kind = "ret"}
    IN  Ret([k \in 1..Cardinality(ok) |->
               IngredientsOutput(
                   results[CHOOSE m \in ok : Cardinality({n \in ok : n < m}) = k - 1]).val])

\* line 154: [IngredientsOutput(**result) for result in results]
ExtractResults(results) ==
    IF \E k \in DOMAIN results : IngredientsOutput(results[k]).kind = "raise"
    THEN LET first == CHOOSE k \in DOMAIN results :
                         /\ IngredientsOutput(results[k]).kind = "raise"
                         /\ \A m \in 1..(k - 1) : IngredientsOutput(results[m]).kind = "ret"
         IN  IngredientsOutput(results[first])
    ELSE Ret([k \in DOMAIN results |-> IngredientsOutput(results[k]).val])

\* lines 153-154: the gather ends, then the results are built
ExtractGather ==
    /\ tool = "extract_ingredients"
    /\ extract_out = None
    /\ \E o \in GatherOutcome(e_ret) :
          extract_out' = IF o.kind = "raise" THEN o ELSE ExtractResults(o.val)
    /\ UNCHANGED notExtract /\ UNCHANGED <<recipe_texts, e_pc, e_ret, e_requests, e_order>>

-----------------------------------------------------------------------------
(* ai_agent/tools.py: consolidate_units *)

Names == {<<"a">>, <<"A">>, <<"b">>, <<"a", "b">>, <<"A", "b">>}

QtyTexts == {<<"1">>, <<"1", "/", "2">>}

Units == {<<"g">>, <<"szt.">>}

Ingredients == [name : Names, quantity : QtyTexts, unit : Units]

LowerChar(c) == IF c = "A" THEN "a" ELSE IF c = "B" THEN "b" ELSE c

\* str.lower()
lower(s) == [k \in DOMAIN s |-> LowerChar(s[k])]

\* data_models.py, ConsolidatedIngredientOutput: name and unit are strings,
\* quantity is a float (a number, or what pydantic converts to one: a string
\* that parses as a float, a boolean)
ValidConsolidated(j) ==
    /\ \A key \in {"name", "quantity", "unit"} : Has(j, key)
    /\ j.v["name"].t = "str"
    /\ j.v["unit"].t = "str"
    /\ \/ j.v["quantity"].t \in {"num", "bool"}
       \/ j.v["quantity"].t = "str" /\ ParsesAsFloat(j.v["quantity"].v)

\* ConsolidatedIngredientOutput(**result_dict)
ConsolidatedIngredientOutput(j) ==
    IF j.t # "obj" THEN Raise("TypeError")
    ELSE IF ~ValidConsolidated(j) THEN Raise("ValidationError")
    ELSE Ret([name |-> j.v["name"].v,
              quantity |-> FloatValue(j.v["quantity"].v),
              unit |-> j.v["unit"].v])

ConsolidateAnswers ==
    << Raise("APIError"),
       Raise("OutputParserException"),
       Ret(JObj([name |-> JStr(<<"a">>), quantity |-> JNum(<<"2">>),
                 unit |-> JStr(<<"szt.">>)])),
       Ret(JObj([name |-> JStr(<<"b">>), quantity |-> JNum(<<"1", ".", "5">>),
                 unit |-> JStr(<<"g">>)])),
       Ret(JObj([name |-> JStr(<<"a">>), quantity |-> JStr(<<"2">>),
                 unit |-> JStr(<<"opak.">>)])),
       Ret(JObj([name |-> JStr(<<"a">>), quantity |-> JStr(<<"1", "/", "2">>),
                 unit |-> JStr(<<"g">>)])),
       Ret(JObj([name |-> JStr(<<"a">>), unit |-> JStr(<<"g">>)])),
       Ret(JList(<<>>)) >>

ConsolidateArgs_NoNameCheck(ings) ==
    IF Len(ings) = 0 THEN Raise("ValueError: empty") ELSE Ret(ings[1].name)

\* lines 293-301: the checks of the argument, then ingredient_name
ConsolidateArgs(ings) ==
    IF Len(ings) = 0 THEN Raise("ValueError: empty")
    ELSE IF \E k \in DOMAIN ings : lower(ings[k].name) # lower(ings[1].name)
    THEN Raise("ValueError: names")
    ELSE Ret(ings[1].name)

\* lines 361-368: the handler prints and raises the exception again
OnConsolidateException(e) ==
    [out |-> Raise(e), printed |-> <<"Error consolidating units", "Stack trace:">>]

\* lines 351-368: the try block, given what chain.ainvoke came back with
ConsolidateTry(answer) ==
    IF answer.kind = "raise" THEN OnConsolidateException(answer.val)
    ELSE IF ConsolidatedIngredientOutput(answer.val).kind = "raise"
    THEN [out |-> OnConsolidateException(ConsolidatedIngredientOutput(answer.val).val).out,
          printed |-> <<"Consolidation successful">>
                      \o OnConsolidateException(
                             ConsolidatedIngredientOutput(answer.val).val).printed]
    ELSE [out |-> ConsolidatedIngredientOutput(answer.val),
          printed |-> <<"Consolidation successful">>]

ConsolidateIdle ==
    /\ ingredients = <<>>
    /\ c_pc = "idle"
    /\ c_requests = 0
    /\ c_answer = None
    /\ c_printed = <<>>
    /\ consolidate_out = None

ConsolidateStart ==
    /\ ingredients \in SeqsUpTo(Ingredients, MaxIngredients)
    /\ c_pc = "start"
    /\ c_requests = 0
    /\ c_answer = None
    /\ c_printed = <<>>
    /\ consolidate_out = None

\* lines 293-299: an argument that is rejected
ConsolidateReject ==
    /\ tool = "consolidate_units"
    /\ c_pc = "start"
    /\ ConsolidateArgs(ingredients).kind = "raise"
    /\ consolidate_out' = ConsolidateArgs(ingredients)
    /\ c_pc' = "done"
    /\ UNCHANGED notConsolidate
    /\ UNCHANGED <<ingredients, c_requests, c_answer, c_printed>>

\* lines 301-356: the prompt is built and chain.ainvoke sends the request
ConsolidateRequest ==
    /\ tool = "consolidate_units"
    /\ c_pc = "start"
    /\ ConsolidateArgs(ingredients).kind = "ret"
    /\ c_printed' = <<"Attempting to consolidate units">>
    /\ c_requests' = c_requests + 1
    /\ c_pc' = "waiting"
    /\ UNCHANGED notConsolidate
    /\ UNCHANGED <<ingredients, c_answer, consolidate_out>>

\* lines 352-368: chain.ainvoke ends and the tool returns or raises
ConsolidateAnswer ==
    /\ tool = "consolidate_units"
    /\ c_pc = "waiting"
    /\ \E a \in DOMAIN ConsolidateAnswers :
          /\ c_answer' = ConsolidateAnswers[a]
          /\ consolidate_out' = ConsolidateTry(ConsolidateAnswers[a]).out
          /\ c_printed' = c_printed \o ConsolidateTry(ConsolidateAnswers[a]).printed
    /\ c_pc' = "done"
    /\ UNCHANGED notConsolidate
    /\ UNCHANGED <<ingredients, c_requests>>

-----------------------------------------------------------------------------
(* ai_agent/tools.py: unify_ingredient_names and group_by_ingredient_name *)

\* The ingredients the lists of these two tools are drawn from: two entries
\* of one name that differ in quantity and unit, and one of another name.
ListedIngredients ==
    { [name |-> <<"a">>, quantity |-> <<"1">>, unit |-> <<"g">>],
      [name |-> <<"a">>, quantity |-> <<"1", "/", "2">>, unit |-> <<"szt.">>],
      [name |-> <<"b">>, quantity |-> <<"1">>, unit |-> <<"g">>] }

\* list[IngredientsOutput]
IngredientLists ==
    SeqsUpTo([ingredients : SeqsUpTo(ListedIngredients, MaxListed)], MaxListed)

\* the same with a name that differs from another in case only
CasedIngredientLists ==
    SeqsUpTo([ingredients :
                 SeqsUpTo(ListedIngredients
                              \cup {[name |-> <<"A">>, quantity |-> <<"1">>,
                                     unit |-> <<"g">>]},
                          MaxListed)],
             MaxListed)

RECURSIVE Flatten(_)
\* the ingredients of all recipes, in recipe order, then position
Flatten(list) ==
    IF Len(list) = 0 THEN <<>>
    ELSE Flatten(SubSeq(list, 1, Len(list) - 1)) \o list[Len(list)].ingredients

\* lines 160-162
all_ingredient_names(list) == {Flatten(list)[k].name : k \in DOMAIN Flatten(list)}

NameMapping(o, t) == JObj([original_name |-> JStr(o), target_name |-> JStr(t)])

NamesAnswer(items) == Ret(JObj([ingredient_names |-> JList(items)]))

UnifyAnswers ==
    << Raise("APIError"),
       Raise("OutputParserException"),
       NamesAnswer(<<NameMapping(<<"a">>, <<"b">>)>>),
       NamesAnswer(<<NameMapping(<<"a">>, <<"b">>), NameMapping(<<"b">>, <<"a">>)>>),
       NamesAnswer(<<NameMapping(<<"a">>, <<"c">>), NameMapping(<<"a">>, <<"b">>)>>),
       NamesAnswer(<<NameMapping(<<"b">>, <<"b">>), NameMapping(<<"d">>, <<"a">>)>>),
       NamesAnswer(<<JObj([original_name |-> JStr(<<"a">>)])>>),
       Ret(JObj([names |-> JList(<<>>)])),
       Ret(JList(<<>>)) >>

\* result.get("ingredient_names", [])
NameItems(j) == IF Has(j, "ingredient_names") THEN j.v["ingredient_names"].v ELSE <<>>

RECURSIVE DictOfItems(_)
\* {item["original_name"]: item["target_name"] for item in ...}: a later item
\* of the same original_name replaces the earlier one
DictOfItems(items) ==
    IF Len(items) = 0 THEN <<>>
    ELSE LET d == DictOfItems(SubSeq(items, 1, Len(items) - 1))
             last == items[Len(items)]
         IN  [k \in DOMAIN d \cup {last.v["original_name"].v} |->
                 IF k = last.v["original_name"].v
                 THEN last.v["target_name"].v ELSE d[k]]

\* line 183: the dictionary, or the exception of building it
unified_names_map(j) ==
    IF j.t # "obj" THEN Raise("AttributeError")
    ELSE IF \E k \in DOMAIN NameItems(j) :
               ~(Has(NameItems(j)[k], "original_name")
                    /\ Has(NameItems(j)[k], "target_name"))
    THEN Raise("KeyError")
    ELSE Ret(DictOfItems(NameItems(j)))

Rename_Again(map, ing) ==
    IF ing.name \in DOMAIN map
    THEN [ing EXCEPT !.name = IF map[ing.name] \in DOMAIN map
                               THEN map[map[ing.name]] ELSE map[ing.name]]
    ELSE ing

\* lines 187-188
Rename(map, ing) ==
    IF ing.name \in DOMAIN map THEN [ing EXCEPT !.name = map[ing.name]] ELSE ing

RenameAll_OnlyMapped(map, list) ==
    LET Mapped(ing) == ing.name \in DOMAIN map
    IN  [r \in DOMAIN list |->
            [ingredients |->
                [k \in DOMAIN SelectSeq(list[r].ingredients, Mapped) |->
                    Rename(map, SelectSeq(list[r].ingredients, Mapped)[k])]]]

\* lines 185-188
RenameAll(map, list) ==
    [r \in DOMAIN list |->
        [ingredients |->
            [k \in DOMAIN list[r].ingredients |-> Rename(map, list[r].ingredients[k])]]]

UnifyIdle ==
    /\ ingredient_list = <<>>
    /\ u_input = <<>>
    /\ u_pc = "idle"
    /\ u_requests = 0
    /\ u_answer = None
    /\ unify_out = None

UnifyStart ==
    /\ ingredient_list \in IngredientLists
    /\ u_input = ingredient_list
    /\ u_pc = "start"
    /\ u_requests = 0
    /\ u_answer = None
    /\ unify_out = None

\* lines 164-165: no name at all
UnifyNothing ==
    /\ tool = "unify_ingredient_names"
    /\ u_pc = "start"
    /\ all_ingredient_names(ingredient_list) = {}
    /\ unify_out' = Ret(ingredient_list)
    /\ u_pc' = "done"
    /\ UNCHANGED notUnify
    /\ UNCHANGED <<ingredient_list, u_input, u_requests, u_answer>>

\* lines 167-182: the prompt is built and chain.ainvoke sends the request
UnifyRequest ==
    /\ tool = "unify_ingredient_names"
    /\ u_pc = "start"
    /\ all_ingredient_names(ingredient_list) # {}
    /\ u_requests' = u_requests + 1
    /\ u_pc' = "waiting"
    /\ UNCHANGED notUnify
    /\ UNCHANGED <<ingredient_list, u_input, u_answer, unify_out>>

\* lines 182-190: chain.ainvoke ends, the names are replaced in place
UnifyAnswer ==
    /\ tool = "unify_ingredient_names"
    /\ u_pc = "waiting"
    /\ \E a \in DOMAIN UnifyAnswers :
          /\ u_answer' = UnifyAnswers[a]
          /\ IF UnifyAnswers[a].kind = "raise"
             THEN unify_out' = UnifyAnswers[a] /\ UNCHANGED ingredient_list
             ELSE IF unified_names_map(UnifyAnswers[a].val).kind = "raise"
             THEN /\ unify_out' = unified_names_map(UnifyAnswers[a].val)
                  /\ UNCHANGED ingredient_list
             ELSE /\ ingredient_list' =
                        RenameAll(unified_names_map(UnifyAnswers[a].val).val,
                                  ingredient_list)
                  /\ unify_out' = Ret(ingredient_list')
    /\ u_pc' = "done"
    /\ UNCHANGED notUnify
    /\ UNCHANGED <<u_input, u_requests>>

RECURSIVE merged_prepend(_)
merged_prepend(flat) ==
    IF Len(flat) = 0 THEN <<>>
    ELSE LET d == merged_prepend(SubSeq(flat, 1, Len(flat) - 1))
             x == flat[Len(flat)]
         IN  [k \in DOMAIN d \cup {x.name} |->
                 IF k = x.name
                 THEN (<<x>> \o (IF k \in DOMAIN d THEN d[k] ELSE <<>>))
                 ELSE d[k]]

RECURSIVE merged_append(_)
merged_append(flat) ==
    IF Len(flat) = 0 THEN <<>>
    ELSE LET d == merged_append(SubSeq(flat, 1, Len(flat) - 1))
             x == flat[Len(flat)]
         IN  [k \in DOMAIN d \cup {x.name} |->
                 IF k = x.name
                 THEN (IF k \in DOMAIN d THEN d[k] ELSE <<>>) \o <<x>>
                 ELSE d[k]]

\* lines 196-199: merged_ingredients[ingredient.name].append(ingredient), for
\* each ingredient of each recipe in turn
merged_ingredients(flat) == merged_append(flat)

GroupIdle ==
    /\ ingredients_list = <<>>
    /\ g_pc = "idle"
    /\ group_out = None

GroupStart ==
    /\ ingredients_list \in CasedIngredientLists
    /\ g_pc = "start"
    /\ group_out = None

\* lines 194-201
Group ==
    /\ tool = "group_by_ingredient_name"
    /\ g_pc = "start"
    /\ group_out' = Ret(merged_ingredients(Flatten(ingredients_list)))
    /\ g_pc' = "done"
    /\ UNCHANGED notGroup
    /\ UNCHANGED ingredients_list

-----------------------------------------------------------------------------
(* ai_agent/tools.py: sum_quantities *)

QtyChars == {"1", "2", ".", "/", " ", "-"}

sum_quantities_SkipSecond(i1, i2) ==
    IF float(i1.quantity).kind = "raise" THEN Raise("ValueError: Cannot parse quantity")
    ELSE IF float(i2.quantity).kind = "raise" THEN Ret(float(i1.quantity).val)
    ELSE Ret(float(i1.quantity).val + float(i2.quantity).val)

\* lines 376-379
sum_quantities(i1, i2) ==
    IF float(i1.quantity).kind = "raise" \/ float(i2.quantity).kind = "raise"
    THEN Raise("ValueError: Cannot parse quantity")
    ELSE Ret(float(i1.quantity).val + float(i2.quantity).val)

SumIdle ==
    /\ ingredient1 = <<>>
    /\ ingredient2 = <<>>
    /\ s_pc = "idle"
    /\ sum_out = None

\* two Ingredient objects: every quantity string up to the bound for the
\* first, every shorter one for the second, names and units equal or not
SumStart ==
    /\ ingredient1 \in [name : {<<"a">>, <<"b">>},
                        quantity : SeqsUpTo(QtyChars, MaxQtyLen),
                        unit : {<<"g">>}]
    /\ ingredient2 \in [name : {<<"a">>},
                        quantity : SeqsUpTo(QtyChars, MaxQtyLen - 1),
                        unit : {<<"g">>, <<"szt.">>}]
    /\ ingredient1.name = <<"b">> <=> ingredient2.unit = <<"szt.">>
    /\ s_pc = "start"
    /\ sum_out = None

\* lines 372-379
Sum ==
    /\ tool = "sum_quantities"
    /\ s_pc = "start"
    /\ sum_out' = sum_quantities(ingredient1, ingredient2)
    /\ s_pc' = "done"
    /\ UNCHANGED notSum
    /\ UNCHANGED <<ingredient1, ingredient2>>

-----------------------------------------------------------------------------
(* ai_agent/tools.py: handle_unknown_units *)

\* line 11: the names of data_models.py that tools.py imports
ImportedDataModels ==
    {"Ingredient", "IngredientsOutput", "IngredientNamesOutput",
     "ConsolidatedIngredientOutput"}

ConvertAnswers ==
    << Raise("APIError"),
       Raise("OutputParserException"),
       Ret(JObj([quantity |-> JNum(<<"5">>), unit |-> JStr(<<"g">>),
                 explanation |-> JStr(<<"a clove weighs 5g">>)])),
       Ret(JObj([quantity |-> JNum(<<"5">>), unit |-> JStr(<<"ml">>)])),
       Ret(JObj([quantity |-> JStr(<<"5">>), unit |-> JStr(<<"g">>),
                 explanation |-> JStr(<<"text">>)])),
       Ret(JObj([quantity |-> JNum(<<"1">>), unit |-> JStr(<<"szt.">>),
                 explanation |-> JStr(<<"text">>)])),
       Ret(JObj([quantity |-> JBool(<<"true">>), unit |-> JStr(<<"g">>),
                 explanation |-> JStr(<<"text">>)])),
       Ret(JList(<<>>)) >>

\* lines 273-278: the handler prints and returns a dictionary with 'error'
OnConvertException(e) ==
    [out |-> Ret(JObj([error |-> JStr(<<"Failed to convert units", e>>)])),
     printed |-> <<"Error converting unit">>]

\* line 269: isinstance(result.get("quantity"), (int, float)) and
\* result.get("unit") in ["g", "ml"]; a bool is an int
ValidConversion(j) ==
    /\ Has(j, "quantity")
    /\ j.v["quantity"].t \in {"num", "bool"}
    /\ Has(j, "unit")
    /\ j.v["unit"].t = "str"
    /\ j.v["unit"].v \in {<<"g">>, <<"ml">>}

\* lines 262-278: the try block, given what chain.ainvoke came back with
ConvertTry(answer) ==
    IF answer.kind = "raise" THEN OnConvertException(answer.val)
    ELSE IF answer.val.t # "obj" THEN OnConvertException("AttributeError")
    ELSE IF ~ValidConversion(answer.val) THEN OnConvertException("ValueError")
    ELSE [out |-> Ret(answer.val), printed |-> <<"Conversion successful">>]

\* line 225: JsonOutputParser(pydantic_object=UnitConversionOutput) looks the
\* name up in the module, where no import binds it
ParserLookup ==
    IF "UnitConversionOutput" \in ImportedDataModels THEN Ret(<<>>)
    ELSE Raise("NameError")

ConvertIdle ==
    /\ h_args = <<>>
    /\ h_pc = "idle"
    /\ h_requests = 0
    /\ h_answer = None
    /\ h_printed = <<>>
    /\ convert_out = None

ConvertStart ==
    /\ h_args \in [ingredient_name : Names,
                   quantity_str : SeqsUpTo(QtyChars, ArgQtyLen),
                   unit_str : Units \cup {<<"clove">>, <<"pinch">>}]
    /\ h_pc = "start"
    /\ h_requests = 0
    /\ h_answer = None
    /\ h_printed = <<>>
    /\ convert_out = None

\* lines 218-225: the parser cannot be built and the call raises
ConvertNameError ==
    /\ tool = "handle_unknown_units"
    /\ h_pc = "start"
    /\ ParserLookup.kind = "raise"
    /\ h_printed' = <<"Attempting to convert unit">>
    /\ convert_out' = ParserLookup
    /\ h_pc' = "done"
    /\ UNCHANGED notConvert
    /\ UNCHANGED <<h_args, h_requests, h_answer>>

\* lines 218-267: the prompt is built and chain.ainvoke sends the request.
\* Never enabled as the code stands: ParserLookup raises on every call, so
\* neither this step nor ConvertAnswer is ever taken.
ConvertRequest ==
    /\ tool = "handle_unknown_units"
    /\ h_pc = "start"
    /\ ParserLookup.kind = "ret"
    /\ h_printed' = <<"Attempting to convert unit">>
    /\ h_requests' = h_requests + 1
    /\ h_pc' = "waiting"
    /\ UNCHANGED notConvert
    /\ UNCHANGED <<h_args, h_answer, convert_out>>

\* lines 263-278: chain.ainvoke ends and the tool returns
ConvertAnswer ==
    /\ tool = "handle_unknown_units"
    /\ h_pc = "waiting"
    /\ \E a \in DOMAIN ConvertAnswers :
          /\ h_answer' = ConvertAnswers[a]
          /\ convert_out' = ConvertTry(ConvertAnswers[a]).out
          /\ h_printed' = h_printed \o ConvertTry(ConvertAnswers[a]).printed
    /\ h_pc' = "done"
    /\ UNCHANGED notConvert
    /\ UNCHANGED <<h_args, h_requests>>

-----------------------------------------------------------------------------
(* ai_agent/agent.py: run_agent, and the executor loop it hands the tools to *)

\* tools.py lines 382-390: the tools list
ToolNames ==
    {"fetch_recipes_from_urls", "extract_ingredients", "unify_ingredient_names",
     "consolidate_units", "handle_unknown_units", "group_by_ingredient_name",
     "sum_quantities"}

\* agent.py lines 43-70: the tools the instructions tell the agent to use
InstructedTools ==
    {"fetch_recipes_from_urls", "extract_ingredients", "unify_ingredient_names",
     "group_by_ingredient_name", "handle_unknown_units", "sum_quantities",
     "consolidate_units", "generate_audio_for_list"}

\* agent.py line 31
max_iterations == 50

\* How a call of a tool of the list can end: returned to the executor as an
\* observation, or raised out of it. handle_unknown_units only raises.
ToolOutcomes(name) ==
    IF name = "handle_unknown_units" /\ ParserLookup.kind = "raise"
    THEN {"raise"} ELSE {"ret", "raise"}

OnAgentException_Reraise(e) ==
    [out |-> Raise(e), printed |-> <<>>]

\* lines 81-82
OnAgentException(e) ==
    [out |-> Ret(<<>>), printed |-> <<"Agent execution failed">>]

AgentIdle ==
    /\ user_inputs = <<>>
    /\ a_pc = "idle"
    /\ iterations = 0
    /\ requested = ""
    /\ a_exception = ""
    /\ a_printed = <<>>
    /\ run_out = None

AgentStart ==
    /\ user_inputs \in SeqsUpTo(Texts \cup Urls, MaxInputs)
    /\ a_pc = "start"
    /\ iterations = 0
    /\ requested = ""
    /\ a_exception = ""
    /\ a_printed = <<>>
    /\ run_out = None

\* lines 14-16: nothing to process
RunAgentNoInput ==
    /\ tool = "run_agent"
    /\ a_pc = "start"
    /\ Len(user_inputs) = 0
    /\ a_printed' = <<"No valid recipe item could be processed. Exiting.">>
    /\ run_out' = Ret(<<>>)
    /\ a_pc' = "done"
    /\ UNCHANGED notAgent
    /\ UNCHANGED <<user_inputs, iterations, requested, a_exception>>

\* lines 18-36: the agent and its executor are built, ainvoke is called
RunAgentInvoke ==
    /\ tool = "run_agent"
    /\ a_pc = "start"
    /\ Len(user_inputs) > 0
    /\ a_printed' = <<"--- Invoking Agent ---">>
    /\ a_pc' = "plan"
    /\ UNCHANGED notAgent
    /\ UNCHANGED <<user_inputs, iterations, requested, a_exception, run_out>>

\* the executor asks the model for the next step: the model names a tool
AgentPlanTool ==
    /\ tool = "run_agent"
    /\ a_pc = "plan"
    /\ iterations < max_iterations
    /\ \E n \in ToolNames \cup InstructedTools : requested' = n
    /\ a_pc' = "act"
    /\ UNCHANGED notAgent
    /\ UNCHANGED <<user_inputs, iterations, a_exception, a_printed, run_out>>

\* the model's answer cannot be parsed: with handle_parsing_errors the
\* executor turns that into an observation and goes on
AgentPlanUnparsed ==
    /\ tool = "run_agent"
    /\ a_pc = "plan"
    /\ iterations < max_iterations
    /\ iterations' = iterations + 1
    /\ UNCHANGED notAgent
    /\ UNCHANGED <<user_inputs, a_pc, requested, a_exception, a_printed, run_out>>

\* the model gives its final answer
AgentPlanFinish ==
    /\ tool = "run_agent"
    /\ a_pc = "plan"
    /\ iterations < max_iterations
    /\ a_pc' = "finished"
    /\ UNCHANGED notAgent
    /\ UNCHANGED <<user_inputs, iterations, requested, a_exception, a_printed, run_out>>

\* the request to the model raises
AgentPlanRaises ==
    /\ tool = "run_agent"
    /\ a_pc = "plan"
    /\ iterations < max_iterations
    /\ a_exception' = "APIError"
    /\ a_pc' = "raised"
    /\ UNCHANGED notAgent
    /\ UNCHANGED <<user_inputs, iterations, requested, a_printed, run_out>>

\* the executor runs the tool of the requested name: the tool returns an
\* observation, or its exception leaves the executor
AgentActTool ==
    /\ tool = "run_agent"
    /\ a_pc = "act"
    /\ requested \in ToolNames
    /\ \E o \in ToolOutcomes(requested) :
          IF o = "ret"
          THEN /\ iterations' = iterations + 1
               /\ a_pc' = "plan"
               /\ UNCHANGED a_exception
          ELSE /\ a_exception' = requested
               /\ a_pc' = "raised"
               /\ UNCHANGED iterations
    /\ UNCHANGED notAgent
    /\ UNCHANGED <<user_inputs, requested, a_printed, run_out>>

AgentActInvalidTool_Uncounted ==
    /\ tool = "run_agent"
    /\ a_pc = "act"
    /\ requested \notin ToolNames
    /\ a_pc' = "plan"
    /\ UNCHANGED notAgent
    /\ UNCHANGED <<user_inputs, iterations, requested, a_exception, a_printed, run_out>>

\* the requested name is no tool of the list: the executor answers that the
\* tool is not valid, and nothing is run
AgentActInvalidTool ==
    /\ tool = "run_agent"
    /\ a_pc = "act"
    /\ requested \notin ToolNames
    /\ iterations' = iterations + 1
    /\ a_pc' = "plan"
    /\ UNCHANGED notAgent
    /\ UNCHANGED <<user_inputs, requested, a_exception, a_printed, run_out>>

\* max_iterations steps were taken: the executor stops with a stock answer
AgentIterationLimit ==
    /\ tool = "run_agent"
    /\ a_pc = "plan"
    /\ iterations >= max_iterations
    /\ a_pc' = "finished"
    /\ UNCHANGED notAgent
    /\ UNCHANGED <<user_inputs, iterations, requested, a_exception, a_printed, run_out>>

\* lines 78-80
RunAgentResult ==
    /\ tool = "run_agent"
    /\ a_pc = "finished"
    /\ a_printed' = a_printed \o <<"--- Agent Result ---", "result", "--- Agent Finished ---">>
    /\ run_out' = Ret(<<>>)
    /\ a_pc' = "done"
    /\ UNCHANGED notAgent
    /\ UNCHANGED <<user_inputs, iterations, requested, a_exception>>

\* lines 81-82
RunAgentFailed ==
    /\ tool = "run_agent"
    /\ a_pc = "raised"
    /\ a_printed' = a_printed \o OnAgentException(a_exception).printed
    /\ run_out' = OnAgentException(a_exception).out
    /\ a_pc' = "done"
    /\ UNCHANGED notAgent
    /\ UNCHANGED <<user_inputs, iterations, requested, a_exception>>

-----------------------------------------------------------------------------
(* Specifications: one tool invocation each, its arguments drawn at Init *)

OtherIdle(t) ==
    /\ t = "fetch_recipes_from_urls" \/ FetchIdle
    /\ t = "extract_ingredients" \/ ExtractIdle
    /\ t = "consolidate_units" \/ ConsolidateIdle
    /\ t = "unify_ingredient_names" \/ UnifyIdle
    /\ t = "group_by_ingredient_name" \/ GroupIdle
    /\ t = "sum_quantities" \/ SumIdle
    /\ t = "handle_unknown_units" \/ ConvertIdle
    /\ t = "run_agent" \/ AgentIdle

FetchInit ==
    tool = "fetch_recipes_from_urls" /\ FetchStart /\ OtherIdle(tool)

ExtractInit ==
    tool = "extract_ingredients" /\ ExtractStart /\ OtherIdle(tool)

ConsolidateInit ==
    tool = "consolidate_units" /\ ConsolidateStart /\ OtherIdle(tool)

UnifyInit ==
    tool = "unify_ingredient_names" /\ UnifyStart /\ OtherIdle(tool)

GroupInit ==
    tool = "group_by_ingredient_name" /\ GroupStart /\ OtherIdle(tool)

SumInit ==
    tool = "sum_quantities" /\ SumStart /\ OtherIdle(tool)

ConvertInit ==
    tool = "handle_unknown_units" /\ ConvertStart /\ OtherIdle(tool)

Init ==
    tool = "run_agent" /\ AgentStart /\ OtherIdle(tool)

FetchNext ==
    \/ \E i \in Tasks : Launch(i)
    \/ \E i \in Tasks : Goto(i)
    \/ \E i \in Tasks : GotoFailedClose(i)
    \/ \E i \in Tasks : Content(i)
    \/ \E i \in Tasks : Close(i)
    \/ FetchGather

ExtractNext ==
    \/ \E i \in Chains : ExtractRequest(i)
    \/ \E i \in Chains : ExtractAnswer(i)
    \/ ExtractGather

ConsolidateNext ==
    \/ ConsolidateReject
    \/ ConsolidateRequest
    \/ ConsolidateAnswer

UnifyNext ==
    \/ UnifyNothing
    \/ UnifyRequest
    \/ UnifyAnswer

GroupNext == Group

SumNext == Sum

ConvertNext ==
    \/ ConvertNameError
    \/ ConvertRequest
    \/ ConvertAnswer

Next ==
    \/ RunAgentNoInput
    \/ RunAgentInvoke
    \/ AgentPlanTool
    \/ AgentPlanUnparsed
    \/ AgentPlanFinish
    \/ AgentPlanRaises
    \/ AgentActTool
    \/ AgentActInvalidTool
    \/ AgentIterationLimit
    \/ RunAgentResult
    \/ RunAgentFailed

\* run_agent
Spec == Init /\ [][Next]_vars

SpecFetch == FetchInit /\ [][FetchNext]_vars

SpecExtract == ExtractInit /\ [][ExtractNext]_vars

SpecConsolidate == ConsolidateInit /\ [][ConsolidateNext]_vars

SpecUnify == UnifyInit /\ [][UnifyNext]_vars

SpecGroup == GroupInit /\ [][GroupNext]_vars

SpecSum == SumInit /\ [][SumNext]_vars

SpecConvert == ConvertInit /\ [][ConvertNext]_vars

\* extract_ingredients and consolidate_units, the two tools that let a failed
\* model call reach the caller
SpecModelFailure ==
    (ExtractInit \/ ConsolidateInit) /\ [][ExtractNext \/ ConsolidateNext]_vars

\* the two tools that dispatch their calls with asyncio.gather
SpecGather == (FetchInit \/ ExtractInit) /\ [][FetchNext \/ ExtractNext]_vars

\* the five tools that load a page or ask the model, one invocation of one of
\* them; of handle_unknown_units only the step that the code can take
RequestsInit ==
    FetchInit \/ ExtractInit \/ UnifyInit \/ ConsolidateInit \/ ConvertInit

RequestsNext ==
    \/ FetchNext
    \/ ExtractNext
    \/ UnifyNext
    \/ ConsolidateNext
    \/ ConvertNameError

SpecRequests == RequestsInit /\ [][RequestsNext]_vars

\* run_agent where every call of the model and of a tool returns or raises:
\* a step that can be taken is taken
SpecAgentFair == Init /\ [][Next]_vars /\ WF_vars(Next)

-----------------------------------------------------------------------------
(* Claims *)

\* C1: fetch_recipes_from_urls returns instead of raising when a page load
\* or the browser fails: a URL whose fetch failed (page.goto, any Playwright
\* exception, empty content) contributes a string beginning with "Error:",
\* and the returned list still holds, at its place, the text of every URL
\* whose fetch did not fail.
C1_FetchReturnsPlaceholders ==
    tool = "fetch_recipes_from_urls" =>
        /\ fetch_out.kind # "raise"
        /\ \A i \in Tasks :
              (f_pc[i] = "done" /\ f_fault[i] # "none") =>
                  /\ f_ret[i].kind = "ret"
                  /\ StartsWith(f_ret[i].val, "Error:")
        /\ fetch_out.kind = "ret" =>
              /\ Len(fetch_out.val) = Len(urls)
              /\ \A i \in Tasks :
                    /\ f_fault[i] # "none" => StartsWith(fetch_out.val[i], "Error:")
                    /\ f_fault[i] = "none" =>
                          fetch_out.val[i] = recipe_text(page_content[i])

\* C1 witness: a returned list in which one URL failed at page.goto, one
\* URL was fetched, and the fetched text is there.
C1_Witness ==
    /\ tool = "fetch_recipes_from_urls"
    /\ fetch_out.kind = "ret"
    /\ \E i, j \in Tasks :
          /\ f_fault[i] = "goto"
          /\ fetch_out.val[i] = ErrorPageLoad(urls[i])
          /\ f_fault[j] = "none"
          /\ fetch_out.val[j] = <<"flour">>


\* extract_ingredients: some chain.ainvoke raised, or came back with a value
\* from which no IngredientsOutput can be built
ExtractFailed ==
    \E i \in Chains :
        \/ e_ret[i].kind = "raise"
        \/ e_ret[i].kind = "ret" /\ IngredientsOutput(e_ret[i].val).kind = "raise"

\* consolidate_units: chain.ainvoke raised, or came back with a value from
\* which no ConsolidatedIngredientOutput can be built
ConsolidateFailed ==
    /\ c_pc = "done"
    /\ c_answer.kind # "none"
    /\ \/ c_answer.kind = "raise"
       \/ ConsolidatedIngredientOutput(c_answer.val).kind = "raise"

\* C2: a failed model call reaches the caller as an exception. When the model
\* call or the parsing fails for any recipe text, extract_ingredients raises
\* and returns no list, not even of the other texts' results; when the model
\* call or the construction of the result fails in consolidate_units, the
\* exception is printed and raised again, and nothing is returned.
C2_FailurePropagates ==
    /\ tool = "extract_ingredients" =>
          /\ (extract_out.kind # "none" /\ ExtractFailed) => extract_out.kind = "raise"
          /\ extract_out.kind = "ret" =>
                /\ Len(extract_out.val) = Len(recipe_texts)
                /\ \A i \in Chains :
                      Ret(extract_out.val[i]) = IngredientsOutput(e_ret[i].val)
    /\ (tool = "consolidate_units" /\ ConsolidateFailed) =>
          /\ consolidate_out.kind = "raise"
          /\ \E k \in DOMAIN c_printed : c_printed[k] = "Error consolidating units"
          /\ c_answer.kind = "raise" => consolidate_out.val = c_answer.val

\* C2 witness: of two recipe texts one got a well-formed answer and the
\* other's model call failed, and extract_ingredients raised.
C2_Witness ==
    /\ tool = "extract_ingredients"
    /\ Len(recipe_texts) = 2
    /\ e_ret[1].kind = "ret"
    /\ IngredientsOutput(e_ret[1].val).kind = "ret"
    /\ e_ret[2] = Raise("APIError")
    /\ extract_out = Raise("APIError")

\* C6: consolidate_units rejects an empty list, and a list in which some
\* name differs from the first one when case is ignored, with a ValueError
\* and before any request is sent to the model.
C6_RejectsBeforeModelCall ==
    (/\ tool = "consolidate_units"
     /\ \/ Len(ingredients) = 0
        \/ \E k \in DOMAIN ingredients :
              lower(ingredients[k].name) # lower(ingredients[1].name)) =>
        /\ c_requests = 0
        /\ c_pc \in {"start", "done"}
        /\ c_pc = "done" =>
              consolidate_out \in {Raise("ValueError: empty"), Raise("ValueError: names")}

\* C6 witness: two ingredients named "a" and "b" were rejected with no
\* request sent.
C6_Witness ==
    /\ tool = "consolidate_units"
    /\ Len(ingredients) = 2
    /\ ingredients[1].name = <<"a">>
    /\ ingredients[2].name = <<"b">>
    /\ c_pc = "done"
    /\ consolidate_out = Raise("ValueError: names")
    /\ c_requests = 0

RECURSIVE SumOfSizes(_, _)
SumOfSizes(d, keys) ==
    IF keys = {} THEN 0
    ELSE LET k == CHOOSE x \in keys : TRUE
         IN  Len(d[k]) + SumOfSizes(d, keys \ {k})

\* C4: group_by_ingredient_name partitions its input. The keys are the names
\* that occur; the group of a name holds exactly the input ingredients of
\* that name, in input order (recipe order, then position); an ingredient is
\* in no group of another name; no group is empty; the sizes add up to the
\* number of input ingredients.
C4_GroupPartitions ==
    (tool = "group_by_ingredient_name" /\ g_pc = "done") =>
        LET flat == Flatten(ingredients_list)
            d == group_out.val
        IN  /\ group_out.kind = "ret"
            /\ DOMAIN d = {flat[p].name : p \in DOMAIN flat}
            /\ \A k \in DOMAIN d :
                  /\ d[k] = SelectSeq(flat, LAMBDA x : x.name = k)
                  /\ Len(d[k]) > 0
                  /\ \A q \in DOMAIN d[k] : d[k][q].name = k
            /\ SumOfSizes(d, DOMAIN d) = Len(flat)

\* C4 witness: two recipes with the same name in both and another name in
\* between were grouped; the group of "a" holds the entry of the first
\* recipe before the entry of the second.
C4_Witness ==
    /\ tool = "group_by_ingredient_name"
    /\ g_pc = "done"
    /\ Len(ingredients_list) = 2
    /\ Len(Flatten(ingredients_list)) = 3
    /\ DOMAIN group_out.val = {<<"a">>, <<"b">>}
    /\ group_out.val[<<"a">>] =
          << [name |-> <<"a">>, quantity |-> <<"1", "/", "2">>, unit |-> <<"szt.">>],
             [name |-> <<"a">>, quantity |-> <<"1">>, unit |-> <<"g">>] >>
    /\ ingredients_list[1].ingredients[1].quantity = <<"1", "/", "2">>

\* the target_name of the last entry of the model's list whose original_name
\* is n
LastTarget(items, n) ==
    LET at == {k \in DOMAIN items : items[k].v["original_name"].v = n}
        last == CHOOSE k \in at : \A m \in at : m <= k
    IN  items[last].v["target_name"].v

\* C5: after unify_ingredient_names has returned with the model's mapping, an
\* ingredient whose original name is an original_name of the mapping carries
\* the target_name given for it (that of the last entry, where the model gave
\* several for one original_name), an ingredient whose name is not in the
\* mapping keeps its name, the mapping is applied once (the new name is not
\* looked up again), and two ingredients of one original name end with one name.
C5_UnifyAppliesMapping ==
    (tool = "unify_ingredient_names" /\ u_pc = "done" /\ unify_out.kind = "ret"
        /\ u_answer.kind = "ret") =>
        LET items == NameItems(u_answer.val)
            keys == {items[k].v["original_name"].v : k \in DOMAIN items}
            old == Flatten(u_input)
            new == Flatten(unify_out.val)
        IN  /\ Len(new) = Len(old)
            /\ \A p \in DOMAIN old :
                  /\ old[p].name \in keys => new[p].name = LastTarget(items, old[p].name)
                  /\ old[p].name \notin keys => new[p].name = old[p].name
            /\ \A p, q \in DOMAIN old :
                  old[p].name = old[q].name => new[p].name = new[q].name

\* C5 witness: the model answered a -> b and b -> a for a list holding both
\* names, and the call returned with the two names exchanged.
C5_Witness ==
    /\ tool = "unify_ingredient_names"
    /\ u_pc = "done"
    /\ unify_out.kind = "ret"
    /\ u_answer = UnifyAnswers[4]
    /\ \E p, q \in DOMAIN Flatten(u_input) :
          /\ Flatten(u_input)[p].name = <<"a">>
          /\ Flatten(unify_out.val)[p].name = <<"b">>
          /\ Flatten(u_input)[q].name = <<"b">>
          /\ Flatten(unify_out.val)[q].name = <<"a">>

\* C9: sum_quantities returns the sum of the two quantities whenever both
\* strings parse as numbers, whatever the order of the arguments, the names
\* and the units, and raises ValueError, returning no number, whenever one
\* of the two strings does not parse (a fraction such as "1/2", the empty
\* string).
C9_SumOrValueError ==
    (tool = "sum_quantities" /\ s_pc = "done") =>
        LET q1 == ingredient1.quantity
            q2 == ingredient2.quantity
            plain(q) == [name |-> <<"x">>, quantity |-> q, unit |-> <<"y">>]
        IN  /\ (ParsesAsFloat(q1) /\ ParsesAsFloat(q2)) =>
                  /\ sum_out = Ret(FloatValue(q1) + FloatValue(q2))
                  /\ sum_out = sum_quantities(ingredient2, ingredient1)
                  /\ sum_out = sum_quantities(plain(q1), plain(q2))
            /\ ~(ParsesAsFloat(q1) /\ ParsesAsFloat(q2)) =>
                  sum_out = Raise("ValueError: Cannot parse quantity")
            /\ (q1 \in {<<>>, <<"1", "/", "1">>} \/ q2 \in {<<>>, <<"/">>}) =>
                  sum_out.kind = "raise"

\* C9 witness: "1.1" of one name in grams and "-1" of another in pieces were
\* summed to 0.1.
C9_Witness ==
    /\ tool = "sum_quantities"
    /\ s_pc = "done"
    /\ ingredient1.quantity = <<"1", ".", "1">>
    /\ ingredient2.quantity = <<"-", "1">>
    /\ ingredient1.name # ingredient2.name
    /\ ingredient1.unit # ingredient2.unit
    /\ sum_out.kind = "ret"
    /\ sum_out.val * 10 = Pow10(Scale)

Printed(lines, line) == \E k \in DOMAIN lines : lines[k] = line

\* C3: run_agent never lets a failure of the agent execution out. An
\* exception that leaves the executor (from the model call or from a tool)
\* is caught and printed as "Agent execution failed", and run_agent ends
\* normally without having printed an agent result.
C3_RunAgentCatches ==
    tool = "run_agent" =>
        /\ run_out.kind # "raise"
        /\ (a_pc = "done" /\ a_exception # "") =>
              /\ run_out.kind = "ret"
              /\ Printed(a_printed, "Agent execution failed")
              /\ ~Printed(a_printed, "--- Agent Result ---")
        /\ (a_pc = "done" /\ a_exception = "" /\ Len(user_inputs) > 0) =>
              /\ Printed(a_printed, "--- Agent Result ---")
              /\ ~Printed(a_printed, "Agent execution failed")

\* C3 witness: consolidate_units raised inside the executor after some steps
\* and run_agent ended normally.
C3_Witness ==
    /\ tool = "run_agent"
    /\ a_pc = "done"
    /\ a_exception = "consolidate_units"
    /\ iterations > 1
    /\ run_out.kind = "ret"
    /\ Printed(a_printed, "Agent execution failed")

\* C10: every tool the instructions tell the agent to use is in the list
\* handed to the executor, generate_audio_for_list of step 8 included: when
\* the agent asks for a tool the instructions name, the executor has it.
C10_InstructedToolsAvailable ==
    (tool = "run_agent" /\ a_pc = "act" /\ requested \in InstructedTools) =>
        requested \in ToolNames

\* C11: whenever consolidate_units returns, the result is one entry for the
\* ingredient that was passed: one numeric quantity, one unit, and as name
\* the name the input ingredients share (the first ingredient's name).
C11_ConsolidatedKeepsName ==
    (tool = "consolidate_units" /\ c_pc = "done" /\ consolidate_out.kind = "ret") =>
        /\ DOMAIN consolidate_out.val = {"name", "quantity", "unit"}
        /\ consolidate_out.val.quantity \in Int
        /\ consolidate_out.val.name = ingredients[1].name

\* C12: the executor of run_agent never takes more than 50 iterations,
\* whatever the model answers and whatever tool it names, and when every
\* call of the model and of a tool comes back, run_agent finishes: with the
\* result printed, or with the failure printed.
C12_AgentLoopBounded ==
    /\ [](iterations <= 50)
    /\ <>(/\ a_pc = "done"
          /\ run_out.kind = "ret"
          /\ Len(a_printed) > 0)

\* the loop ran to its limit and run_agent printed the stock result
C12_Witness ==
    /\ tool = "run_agent"
    /\ Len(user_inputs) > 0
    /\ iterations = max_iterations
    /\ a_pc = "done"
    /\ Printed(a_printed, "--- Agent Finished ---")

\* C13: no tool retries. Within one invocation the page load of each entry of
\* urls is attempted at most once, extract_ingredients asks the model at most
\* once per recipe text, and unify_ingredient_names, handle_unknown_units and
\* consolidate_units ask it at most once; a load or a request that has failed
\* is over, and its tool is never again at the point of issuing it.
C13_NoRetry ==
    /\ \A i \in DOMAIN goto_calls :
          /\ goto_calls[i] <= 1
          /\ f_fault[i] # "none" => f_pc[i] \in {"goto_failed", "done"}
    /\ \A i \in DOMAIN e_requests :
          /\ e_requests[i] <= 1
          /\ e_ret[i].kind = "raise" => e_pc[i] = "done"
    /\ u_requests <= 1
    /\ u_answer.kind = "raise" => u_pc = "done"
    /\ c_requests <= 1
    /\ c_answer.kind = "raise" => c_pc = "done"
    /\ h_requests <= 1
    /\ convert_out.kind = "raise" => h_pc = "done"

\* a page load that failed, or a model request that failed, with its tool
\* finished and the load or request counted once
C13_Witness ==
    \/ /\ tool = "fetch_recipes_from_urls"
       /\ fetch_out.kind = "ret"
       /\ \E i \in Tasks : f_fault[i] = "goto" /\ goto_calls[i] = 1
    \/ /\ tool = "extract_ingredients"
       /\ extract_out.kind = "raise"
       /\ \A i \in Chains : e_pc[i] = "done"
       /\ \E i \in Chains : e_ret[i].kind = "raise" /\ e_requests[i] = 1
    \/ /\ tool = "unify_ingredient_names"
       /\ unify_out.kind = "raise" /\ u_answer.kind = "raise" /\ u_requests = 1
    \/ /\ tool = "consolidate_units"
       /\ consolidate_out.kind = "raise" /\ c_answer.kind = "raise" /\ c_requests = 1

\* C14: the calls that fetch_recipes_from_urls and extract_ingredients
\* dispatch together write nothing but their own result, so whatever the
\* order in which they complete, a call that returns gives a list as long as
\* its input, whose i-th element is what the i-th call came back with: the
\* text or error string of the i-th URL, the IngredientsOutput of the answer
\* for the i-th recipe text.
C14_ResultInInputOrder ==
    /\ (tool = "fetch_recipes_from_urls" /\ fetch_out.kind = "ret") =>
          /\ Len(fetch_out.val) = Len(urls)
          /\ Len(f_order) = Len(urls)
          /\ \A i \in Tasks : fetch_out.val[i] = f_ret[i].val
    /\ (tool = "extract_ingredients" /\ extract_out.kind = "ret") =>
          /\ Len(extract_out.val) = Len(recipe_texts)
          /\ Len(e_order) = Len(recipe_texts)
          /\ \A i \in Chains :
                extract_out.val[i] = IngredientsOutput(e_ret[i].val).val

\* the second call completed before the first with a different result, and
\* the tool returned
C14_Witness ==
    \/ /\ tool = "fetch_recipes_from_urls"
       /\ fetch_out.kind = "ret"
       /\ f_order = <<2, 1>>
       /\ f_ret[1].val # f_ret[2].val
    \/ /\ tool = "extract_ingredients"
       /\ extract_out.kind = "ret"
       /\ e_order = <<2, 1>>
       /\ e_ret[1].val # e_ret[2].val

\* two lists of recipes that differ in ingredient names at most
SameButNames(before, after) ==
    /\ Len(after) = Len(before)
    /\ \A r \in DOMAIN before :
          /\ DOMAIN after[r] = {"ingredients"}
          /\ Len(after[r].ingredients) = Len(before[r].ingredients)
          /\ \A k \in DOMAIN before[r].ingredients :
                /\ after[r].ingredients[k].quantity = before[r].ingredients[k].quantity
                /\ after[r].ingredients[k].unit = before[r].ingredients[k].unit

\* C15: unify_ingredient_names changes names only. Whatever the model
\* answers, once the call is over the list that was passed, and the list that
\* is returned, have the recipes of the input, each with as many ingredients
\* in the same order and with every quantity and unit as passed; and for an
\* input without any ingredient the input is returned as it was and the
\* model is never asked.
C15_UnifyChangesNamesOnly ==
    (tool = "unify_ingredient_names" /\ u_pc = "done") =>
        /\ SameButNames(u_input, ingredient_list)
        /\ unify_out.kind = "ret" => SameButNames(u_input, unify_out.val)
        /\ all_ingredient_names(u_input) = {} =>
              /\ unify_out = Ret(u_input)
              /\ ingredient_list = u_input
              /\ u_requests = 0
              /\ u_answer = None

\* two recipes were passed, the first with two ingredients of different
\* quantities and units, the model's mapping was applied and a name changed
C15_Witness ==
    /\ tool = "unify_ingredient_names"
    /\ u_pc = "done"
    /\ unify_out.kind = "ret"
    /\ u_requests = 1
    /\ Len(u_input) = 2
    /\ Len(u_input[1].ingredients) = 2
    /\ u_input[1].ingredients[1].quantity # u_input[1].ingredients[2].quantity
    /\ u_input[1].ingredients[1].unit # u_input[1].ingredients[2].unit
    /\ unify_out.val[1].ingredients[1].name # u_input[1].ingredients[1].name

====
